---------------------------- MODULE Spec2Model ----------------------------
(***************************************************************************)
(* Model of rubrik_cdm/rubrik_cdm.py: the Bootstrap client's               *)
(* setup_cluster / status workflow.  One call of setup_cluster is a        *)
(* blocking operation that suspends only at its network calls; each        *)
(* action runs the code from one network call to the next, the outcome of  *)
(* the call being the environment's choice.                                *)
(***************************************************************************)
EXTENDS Integers, Sequences, FiniteSets, TLC

VARIABLES
    self,               \* fields of the Bootstrap client
    pc,                 \* where the current setup_cluster call is suspended
    args,               \* arguments of the call that are still live
    version,            \* version string returned by GET /cluster/me/version
    bootstrap_config,   \* the document assembled for the bootstrap POST
    number_of_attempts, \* setup_cluster's local attempt counter
    request_id,         \* id extracted from the POST's response
    result,             \* how the call ended: return value or exception
    gets,               \* GET requests issued by the call
    posts,              \* bootstrap POSTs issued by the call
    backoffs,           \* time.sleep(30) calls of the submission loop
    polls,              \* calls of self.status made by the polling loop
    pollDelays,         \* time.sleep(30) calls of the polling loop
    refused,            \* POSTs answered with connection refused
    inProgress,         \* status polls answered IN_PROGRESS
    lastPost,           \* how the latest POST was answered
    lastStatus,         \* the document the latest status poll returned
    resolution,         \* what Bootstrap.__init__ was given and was answered
    op,                 \* the method the caller invoked
    status_call,        \* the arguments and the GETs of the latest status call
    received,           \* the document the latest status GET was answered with
    sent,               \* the transport call issued last
    fellBack,           \* a poll of this call was answered through the IPv4 client
    past                \* how the earlier calls on this client ended

vars == <<self, pc, args, version, bootstrap_config, number_of_attempts,
          request_id, result, gets, posts, backoffs, polls, pollDelays,
          refused, inProgress, lastPost, lastStatus, resolution, op,
          status_call, received, sent, fellBack, past>>

-----------------------------------------------------------------------------
(* Bounds of the model *)

\* the server answers IN_PROGRESS only while fewer than MaxPolls polls were made
MaxPolls == 3

-----------------------------------------------------------------------------
(* Python values: every value carries its type, as isinstance sees it *)

PyNone == [t |-> "NoneType"]
PyStr(s) == [t |-> "str", v |-> s]
PyInt(n) == [t |-> "int", v |-> n]
PyList(xs) == [t |-> "list", items |-> xs]
\* a dict is the sequence of its (key, value) items in insertion order
PyDict(kvs) == [t |-> "dict", items |-> kvs]

IsNone(x) == x.t = "NoneType"
IsDict(x) == x.t = "dict"
IsList(x) == x.t = "list"

DictKeys(d) == {d.items[i][1] : i \in 1..Len(d.items)}
DictValues(d) == [i \in 1..Len(d.items) |-> d.items[i][2]]

DictGet(d, k) == d.items[CHOOSE i \in 1..Len(d.items) : d.items[i][1] = k][2]

\* the empty mapping, for dict entries that are left out
NoKeys == <<>>

-----------------------------------------------------------------------------
(* Exceptions and results *)

\* the text of an exception is a sequence of fragments; `needle in str(e)`
\* holds when one of the fragments is the needle
InText(needle, text) == \E i \in 1..Len(text) : text[i] = needle

\* "{}".format(s) of a str s
PyFormat(s) == <<s>>

Raised(exc, text) == [kind |-> "raised", exc |-> exc, text |-> text]
Returned(what, value) == [kind |-> "returned", what |-> what, value |-> value]
NoResult == [kind |-> "none"]

-----------------------------------------------------------------------------
(* float(version[:3]) *)

Digits == {"0", "1", "2", "3", "4", "5", "6", "7", "8", "9"}

DigitVal(c) ==
    CASE c = "0" -> 0 [] c = "1" -> 1 [] c = "2" -> 2 [] c = "3" -> 3
      [] c = "4" -> 4 [] c = "5" -> 5 [] c = "6" -> 6 [] c = "7" -> 7
      [] c = "8" -> 8 [] c = "9" -> 9

\* s[:3]
Prefix3(s) == SubSeq(s, 1, IF Len(s) < 3 THEN Len(s) ELSE 3)

RECURSIVE DigitsToNat(_)
DigitsToNat(ds) ==
    IF ds = <<>> THEN 0
    ELSE 10 * DigitsToNat(SubSeq(ds, 1, Len(ds) - 1)) + DigitVal(ds[Len(ds)])

ValueError == -1

\* float(p) for a string p of at most three characters, in hundredths;
\* ValueError when p is not a decimal number
PyFloat(p) ==
    LET dots == {i \in 1..Len(p) : p[i] = "."}
        wellFormed == /\ \A i \in 1..Len(p) : p[i] \in Digits \cup {"."}
                      /\ Cardinality(dots) <= 1
                      /\ \E i \in 1..Len(p) : p[i] \in Digits
        dot == IF dots = {} THEN Len(p) + 1 ELSE CHOOSE i \in dots : TRUE
        whole == SubSeq(p, 1, dot - 1)
        frac == SubSeq(p, dot + 1, Len(p))
        hundredths == IF Len(frac) = 0 THEN 0
                      ELSE IF Len(frac) = 1 THEN 10 * DigitVal(frac[1])
                      ELSE 10 * DigitVal(frac[1]) + DigitVal(frac[2])
    IN  IF wellFormed THEN 100 * DigitsToNat(whole) + hundredths ELSE ValueError

\* float(5.0), in hundredths
NtpSchemaVersion == 500

\* the comparison off by one: float(version[:3]) <= float(5.0)
BelowNtpSchemaVersion_AtMost(v) == PyFloat(Prefix3(v)) <= NtpSchemaVersion

\* float(version[:3]) < float(5.0)
BelowNtpSchemaVersion(v) == PyFloat(Prefix3(v)) < NtpSchemaVersion

-----------------------------------------------------------------------------
(* Arguments of setup_cluster *)

NodeConfigs ==
    { PyNone,
      PyStr("node1=10.0.0.1"),
      PyDict(<<>>),
      PyDict(<< <<"node1", PyStr("10.0.0.1")>> >>),
      PyDict(<< <<"node1", PyStr("10.0.0.1")>>, <<"node2", PyStr("10.0.0.2")>> >>) }

DnsSearchDomains == { PyNone, PyStr("example.com"), PyList(<<PyStr("example.com")>>) }
DnsNameservers == { PyNone, PyStr("1.1.1.1"), PyList(<<PyStr("1.1.1.1")>>) }
NtpServers ==
    { PyNone, PyStr("ntp1"), PyList(<<PyStr("ntp1"), PyStr("ntp2")>>) }

\* address maps of the optional networks: absent, naming a node of every
\* non-empty node_config, or naming also a node that no node_config has
AddressMaps(net) ==
    { PyNone,
      PyDict(<< <<"node1", PyStr(net)>> >>),
      PyDict(<< <<"node1", PyStr(net)>>, <<"ghost", PyStr(net)>> >>) }

Gateways == { PyNone, PyStr("10.0.0.254") }
SubnetMasks == { PyNone, PyStr("255.255.255.0") }
Vlans == { PyNone, PyInt(100) }

SetupClusterArgs ==
    [ cluster_name : {PyStr("cluster")},
      admin_email : {PyStr("admin@example.com")},
      admin_password : {PyStr("secret")},
      management_gateway : {PyStr("10.0.0.254")},
      management_subnet_mask : {PyStr("255.255.255.0")},
      node_config : NodeConfigs,
      enable_encryption : {TRUE},
      dns_search_domains : DnsSearchDomains,
      dns_nameservers : DnsNameservers,
      ntp_servers : NtpServers,
      wait_for_completion : BOOLEAN,
      management_vlan : {PyNone},
      ipmi_gateway : Gateways,
      ipmi_subnet_mask : SubnetMasks,
      ipmi_vlan : Vlans,
      node_ipmi_ips : AddressMaps("192.168.0.1"),
      data_gateway : Gateways,
      data_subnet_mask : SubnetMasks,
      data_vlan : Vlans,
      node_data_ips : AddressMaps("172.16.0.1"),
      timeout : {30} ]

\* the arguments the code still reads once bootstrap_config is assembled
LiveArgs(a) ==
    [ node_config |-> a.node_config,
      wait_for_completion |-> a.wait_for_completion,
      timeout |-> a.timeout ]

NoArgs == [ node_config |-> PyNone, wait_for_completion |-> FALSE, timeout |-> 0 ]

-----------------------------------------------------------------------------
(* setup_cluster: validation of the arguments *)

NodeConfigText == <<"You must provide a valid dictionary for \"node_config\" holding node names and management IPs.">>
DnsSearchDomainsText == <<"You must provide a valid list for \"dns_search_domains\".">>
DnsNameserversText == <<"You must provide a valid list for \"dns_nameservers\".">>
NtpServersText == <<"You must provide a valid list for \"ntp_servers\".">>
IpmiNodeText == <<"Non-existent node name specified in IPMI addresses.">>
DataNodeText == <<"Non-existent node name specified in DATA addresses.">>
NoError == <<>>

\* the InvalidParameterException raised by the checks of the arguments'
\* types, or NoError
TypeError(a) ==
    IF IsNone(a.node_config) \/ ~IsDict(a.node_config) THEN NodeConfigText
    ELSE IF ~IsNone(a.dns_search_domains) /\ ~IsList(a.dns_search_domains)
         THEN DnsSearchDomainsText
    ELSE IF ~IsNone(a.dns_nameservers) /\ ~IsList(a.dns_nameservers)
         THEN DnsNameserversText
    ELSE IF ~IsNone(a.ntp_servers) /\ ~IsList(a.ntp_servers)
         THEN NtpServersText
    ELSE NoError

\* the defaults of the list arguments
dns_search_domains(a) ==
    IF IsNone(a.dns_search_domains) THEN PyList(<<>>) ELSE a.dns_search_domains
dns_nameservers(a) ==
    IF IsNone(a.dns_nameservers) THEN PyList(<<PyStr("8.8.8.8")>>) ELSE a.dns_nameservers
ntp_servers(a) ==
    IF IsNone(a.ntp_servers) THEN PyList(<<PyStr("pool.ntp.org")>>) ELSE a.ntp_servers

using_ipmi_config(a) ==
    ~IsNone(a.ipmi_gateway) /\ ~IsNone(a.ipmi_subnet_mask) /\ IsDict(a.node_ipmi_ips)
using_data_config(a) ==
    ~IsNone(a.data_gateway) /\ ~IsNone(a.data_subnet_mask) /\ IsDict(a.node_data_ips)

-----------------------------------------------------------------------------
(* setup_cluster: assembly of bootstrap_config *)

\* one managementIpConfig / ipmiIpConfig / dataIpConfig entry
IpConfig(netmask, gateway, address, vlan) ==
    [netmask |-> netmask, gateway |-> gateway, address |-> address]
        @@ (IF IsNone(vlan) THEN NoKeys ELSE [vlan |-> vlan])

\* the InvalidParameterException raised while the IPMI and data addresses
\* are merged into nodeConfigs, or NoError
NodeNameError(a) ==
    IF using_ipmi_config(a)
       /\ \E name \in DictKeys(a.node_ipmi_ips) : name \notin DictKeys(a.node_config)
    THEN IpmiNodeText
    ELSE IF using_data_config(a)
            /\ \E name \in DictKeys(a.node_data_ips) : name \notin DictKeys(a.node_config)
    THEN DataNodeText
    ELSE NoError

nodeConfigs(a) ==
    [ name \in DictKeys(a.node_config) |->
        [managementIpConfig |->
            IpConfig(a.management_subnet_mask, a.management_gateway,
                     DictGet(a.node_config, name), a.management_vlan)]
        @@ (IF using_ipmi_config(a) /\ name \in DictKeys(a.node_ipmi_ips)
            THEN [ipmiIpConfig |->
                    IpConfig(a.ipmi_subnet_mask, a.ipmi_gateway,
                             DictGet(a.node_ipmi_ips, name), a.ipmi_vlan)]
            ELSE NoKeys)
        @@ (IF using_data_config(a) /\ name \in DictKeys(a.node_data_ips)
            THEN [dataIpConfig |->
                    IpConfig(a.data_subnet_mask, a.data_gateway,
                             DictGet(a.node_data_ips, name), a.data_vlan)]
            ELSE NoKeys) ]

\* the NTP entry of the document, its key chosen by the cluster's version v
NtpConfig(a, v) ==
    IF BelowNtpSchemaVersion(v)
    THEN [ntpServers |-> ntp_servers(a)]
    ELSE [ntpServerConfigs |->
            PyList([i \in 1..Len(ntp_servers(a).items) |->
                      [server |-> ntp_servers(a).items[i]]])]

BootstrapConfig(a, v) ==
    [ enableSoftwareEncryptionAtRest |-> a.enable_encryption,
      name |-> a.cluster_name,
      dnsNameservers |-> dns_nameservers(a),
      dnsSearchDomains |-> dns_search_domains(a),
      adminUserInfo |-> [password |-> a.admin_password,
                         emailAddress |-> a.admin_email,
                         id |-> PyStr("admin")],
      nodeConfigs |-> nodeConfigs(a) ]
    @@ NtpConfig(a, v)

\* list(node_config.values())[0] raises IndexError on an empty dict
NoFirstNode(a) == Len(a.node_config.items) = 0

-----------------------------------------------------------------------------
(* The transport: what a request of self.get / self.post comes back with *)

Ok(body) == [ok |-> TRUE, body |-> body]
Fail(kind, text) == [ok |-> FALSE, kind |-> kind, text |-> text]

ConnectionRefusedText ==
    "Failed to establish a new connection: [Errno 111] Connection refused"
AlreadyBootstrappedText == "Cannot bootstrap from an already bootstrapped node"

ConnectionRefused ==
    Fail("refused", <<"HTTPSConnectionPool: Max retries exceeded: ",
                      ConnectionRefusedText>>)
AlreadyBootstrapped ==
    Fail("already", <<"422: ", AlreadyBootstrappedText>>)
OtherFailure == Fail("other", <<"Read timed out.">>)

Versions ==
    { <<"4", ".", "9", ".", "1">>,
      <<"5", ".", "0", ".", "0">>,
      <<"1", "0", ".", "0", ".", "1">>,
      <<"v", "5", ".", "1">> }

VersionOutcomes ==
    {Ok([version |-> v]) : v \in Versions} \cup {ConnectionRefused, OtherFailure}

RequestIds == {"7"}

PostOutcomes ==
    {Ok([id |-> r]) : r \in RequestIds}
        \cup {ConnectionRefused, AlreadyBootstrapped, OtherFailure}

StatusDocuments ==
    { [status |-> "IN_PROGRESS"],
      [status |-> "SUCCESS"],
      [status |-> "FAILURE", message |-> "disk error"],
      [status |-> "FAILURE"],
      [status |-> "FAILED", message |-> "node unreachable"] }

\* the answers to the status GET of the n-th poll
StatusOutcomes(n) ==
    {Ok(d) : d \in {x \in StatusDocuments : x.status = "IN_PROGRESS" => n < MaxPolls}}
        \cup {ConnectionRefused, OtherFailure}

-----------------------------------------------------------------------------
(* Connect.__init__: the resolution of the credentials *)

\* os.environ at the time a Connect client is constructed
Environments ==
    [ rubrik_cdm_node_ip : {PyNone},
      rubrik_cdm_username : {PyNone, PyStr("env-user")},
      rubrik_cdm_password : {PyNone, PyStr("env-password")},
      rubrik_cdm_token : {PyNone, PyStr("env-token")} ]

\* `if x:` of an argument that is None or a str
Truthy(x) == ~IsNone(x) /\ x.v # ""

LoggingLevels == {"debug", "critical", "error", "warning", "info"}

\* the InvalidParameterException raised by Connect.__init__, or NoError
ConnectError(node_ip, username, password, api_token, logging_level, env) ==
    LET manually ==
            {c \in {"username"} : Truthy(username)}
            \cup {c \in {"password"} : Truthy(password)}
            \cup {c \in {"api_token"} : Truthy(api_token)}
        env_var ==
            {c \in {"username"} : ~Truthy(username) /\ ~IsNone(env.rubrik_cdm_username)}
            \cup {c \in {"password"} : ~Truthy(password) /\ ~IsNone(env.rubrik_cdm_password)}
            \cup {c \in {"api_token"} : ~Truthy(api_token) /\ ~IsNone(env.rubrik_cdm_token)}
        all == manually \cup env_var
        by_arguments == {"username", "password"} \subseteq manually
                        \/ "api_token" \in manually
        by_environment == {"username", "password"} \subseteq all
                          \/ "api_token" \in env_var
    IN  IF logging_level \notin LoggingLevels
        THEN <<"'", logging_level, "' is not a valid logging_level.">>
        ELSE IF IsNone(node_ip) /\ IsNone(env.rubrik_cdm_node_ip)
        THEN <<"The Rubrik CDM Node IP has not been provided.">>
        ELSE IF Cardinality(manually) = 3
        THEN <<"You have provided both an API token and a username and password for authentication. You may only use one or the other.">>
        ELSE IF "username" \in all /\ "password" \notin all
        THEN <<"When providing the username argument, either manually or through the environment variables, you must also provide a password.">>
        ELSE IF "password" \in all /\ "username" \notin all
        THEN <<"When providing the password argument, either manually or through the environment variables, you must also provide a username.">>
        ELSE IF ~by_arguments /\ Cardinality(env_var) = 3
        THEN <<"You have provided both an API token and a username and password, in your environment variables, for authentication. You may only use one or the other.">>
        ELSE IF ~by_arguments /\ ~by_environment
        THEN <<"You must provide either a username and password or API Token for authentication.">>
        ELSE NoError

-----------------------------------------------------------------------------
(* Bootstrap.__init__: the resolution of the node's address *)

\* strings that are searched or formatted are sequences of characters

\* `sub in s`
Contains(sub, s) ==
    \E i \in 0..(Len(s) - Len(sub)) : SubSeq(s, i + 1, i + Len(sub)) = sub

RECURSIVE NatToDigits(_)
\* str(n) of an int n >= 0
NatToDigits(n) ==
    LET d == CHOOSE c \in Digits : DigitVal(c) = n % 10
    IN  IF n < 10 THEN <<d>> ELSE Append(NatToDigits(n \div 10), d)

\* a == b of two values that are an int or a str: never equal across types
PyEq(a, b) == a.t = b.t /\ a.v = b.v

\* "{}".format(x) of an int or a str, as characters
FormatChars(x) == IF x.t = "int" THEN NatToDigits(x.v) ELSE x.v

\* the attribute has not been assigned
Unset == [t |-> "unset"]

Lo == <<"l", "o">>
Eth0 == <<"e", "t", "h", "0">>
Wlo1 == <<"w", "l", "o", "1">>
Bogus0 == <<"b", "o", "g", "u", "s", "0">>

\* socket.if_nameindex(): the local interfaces as (index, name), in order
InterfaceLists ==
    { << <<1, Lo>> >>,
      << <<1, Lo>>, <<2, Eth0>> >>,
      << <<1, Lo>>, <<2, Wlo1>>, <<3, Eth0>> >> }

\* the interface argument
Interfaces == { PyNone, PyStr(Eth0), PyStr(Bogus0) }

\* the node_ip argument
NodeAddresses == { <<"r", "v", "k", "1">>, <<"1", "0", ".", "0", ".", "0", ".", "9">> }

MappedAddress == <<":", ":", "f", "f", "f", "f", ":", "1", "0", ".", "0", ".", "0", ".", "9">>
LinkLocalAddress == <<"f", "e", "8", "0", ":", ":", "1">>
GlobalAddress == <<"2", "0", "0", "1", ":", "d", "b", "8", ":", ":", "1">>
GlobalAddressFfff == <<"2", "0", "0", "1", ":", "d", "b", "8", ":", ":", "f", "f", "f", "f">>

\* scope ids that getaddrinfo reports
ScopeIds == {0, 2}

gaierror == [ok |-> FALSE]

\* socket.getaddrinfo(node_ip, 443, AF_INET6): gaierror, or the address and
\* the scope id of the first entry
Inet6Answers ==
    {gaierror}
    \cup [ ok : {TRUE},
           addr : {MappedAddress, LinkLocalAddress, GlobalAddress, GlobalAddressFfff},
           scope : ScopeIds ]

\* socket.getaddrinfo(node_ip, 443, AF_INET): gaierror, or an answer
InetAnswers == {gaierror, [ok |-> TRUE]}

\* what the operating system answers during one construction
Networks ==
    [ interfaces : InterfaceLists, inet6 : Inet6Answers, inet : InetAnswers ]

HasInterface(name, interfaces) ==
    \E i \in 1..Len(interfaces) : interfaces[i][2] = name

\* socket.if_nametoindex(name), for a name that exists
if_nametoindex(name, interfaces) ==
    PyInt(interfaces[CHOOSE i \in 1..Len(interfaces) : interfaces[i][2] = name][1])

\* '::ffff:' has to open the address
IsV4Mapped_Never(addr) == FALSE

\* '::ffff' in self.ipv6_addr
IsV4Mapped(addr) == Contains(<<":", ":", "f", "f", "f", "f">>, addr)

\* 'lo' not in name
UsableInterface(name) == ~Contains(Lo, name)

\* the scope after the search for a usable interface: the index of the first
\* interface whose name passes, else the scope as it was
ScanScope(scope, interfaces) ==
    LET usable == {i \in 1..Len(interfaces) : UsableInterface(interfaces[i][2])}
    IN  IF usable = {} THEN scope
        ELSE PyInt(interfaces[CHOOSE i \in usable : \A j \in usable : i <= j][1])

\* self.ipv6_scope of a genuine IPv6 address
Ipv6Scope(interface, net) ==
    IF ~IsNone(interface) THEN if_nametoindex(interface.v, net.interfaces)
    ELSE LET scope == PyStr(NatToDigits(net.inet6.scope))
         IN  IF PyEq(scope, PyStr(<<"0">>)) THEN ScanScope(scope, net.interfaces)
             ELSE scope

\* if self.ipv6_scope == 0, after the search
NoUsableScope(interface, net) ==
    /\ IsNone(interface)
    /\ PyEq(PyStr(NatToDigits(net.inet6.scope)), PyStr(<<"0">>))
    /\ PyEq(Ipv6Scope(interface, net), PyInt(0))

\* '[{}%{}]'.format(self.ipv6_addr, self.ipv6_scope)
FormatNodeIp(addr, scope) ==
    <<"[">> \o addr \o <<"%">> \o FormatChars(scope) \o <<"]">>

\* the IPv4 attempt is left out
Ipv4Fallback_Skipped(node_resolution, inet) == node_resolution

\* node_resolution after the IPv4 attempt, which is made only when the IPv6
\* attempt left node_resolution False
Ipv4Fallback(node_resolution, inet) == node_resolution \/ inet.ok

InvalidInterfaceText == <<"Error: Invalid interface supplied">>
NoScopeText == <<"Error: Unable to find a usable IPv6 link local scope">>
NoResolutionText == <<"Error: Could not resolve address for cluster, or invalid IP/address supplied">>

\* the client before __init__ has assigned anything
NoClient ==
    [ node_ip |-> <<>>, ipv6_addr |-> <<>>, ipv6_scope |-> Unset,
      ipv4_addr |-> Unset, function_name |-> "" ]

\* Bootstrap(node_ip, interface): the exception that ends the construction
\* (NoResult when it succeeds) and the fields of the client
BootstrapNew(node_ip, interface, net) ==
    LET genuine == net.inet6.ok /\ ~IsV4Mapped(net.inet6.addr)
        resolved6 == net.inet6.ok
        exc ==
            IF ~IsNone(interface) /\ ~HasInterface(interface.v, net.interfaces)
            THEN Raised("SystemExit", InvalidInterfaceText)
            ELSE IF genuine /\ NoUsableScope(interface, net)
            THEN Raised("SystemExit", NoScopeText)
            ELSE IF ~Ipv4Fallback(resolved6, net.inet)
            THEN Raised("RubrikException", NoResolutionText)
            ELSE NoResult
    IN  [ exc |-> exc,
          self |->
            IF exc # NoResult THEN NoClient
            ELSE [ node_ip |-> IF genuine
                               THEN FormatNodeIp(net.inet6.addr, Ipv6Scope(interface, net))
                               ELSE node_ip,
                   ipv6_addr |-> IF genuine THEN net.inet6.addr ELSE <<>>,
                   ipv6_scope |-> IF genuine THEN Ipv6Scope(interface, net) ELSE Unset,
                   ipv4_addr |-> Unset,
                   function_name |-> "" ] ]

-----------------------------------------------------------------------------
(* Bootstrap.__init__ as an operation, and the state after it *)

NoStatusCall ==
    [ request_id |-> "", timeout |-> 0, ipv4_addr |-> PyNone, tried |-> <<>>,
      failed |-> 0 ]

NoDocument == [status |-> "none"]

\* a transport call: which request, with which timeout, through which
\* client (the Bootstrap client or the IPv4 Connect client) and, for that
\* one, to which address
Sent(kind, timeout, via, address, rid) ==
    [ kind |-> kind, timeout |-> timeout, via |-> via, address |-> address,
      request_id |-> rid ]

NoSent == Sent("none", 0, "self", PyNone, "")

\* the state of everything but the client, before any call
NoCall ==
    /\ args = NoArgs
    /\ version = <<>>
    /\ bootstrap_config = NoKeys
    /\ number_of_attempts = 0
    /\ request_id = ""
    /\ gets = 0
    /\ posts = 0
    /\ backoffs = 0
    /\ polls = 0
    /\ pollDelays = 0
    /\ refused = 0
    /\ inProgress = 0
    /\ lastPost = "none"
    /\ lastStatus = NoDocument
    /\ op = "none"
    /\ status_call = NoStatusCall
    /\ received = NoDocument
    /\ sent = NoSent
    /\ fellBack = FALSE

Resolution(node_ip, interface, net) ==
    [node_ip |-> node_ip, interface |-> interface, net |-> net]

\* a node address that resolves over IPv4 only
Ipv4Resolution ==
    Resolution(<<"1", "0", ".", "0", ".", "0", ".", "9">>, PyNone,
               [ interfaces |-> << <<1, Lo>>, <<2, Eth0>> >>,
                 inet6 |-> gaierror,
                 inet |-> [ok |-> TRUE] ])

\* before Bootstrap(...) is called
InitNew ==
    /\ pc = "new"
    /\ self = NoClient
    /\ resolution = Resolution(<<>>, PyNone,
                               [interfaces |-> <<>>, inet6 |-> gaierror, inet |-> gaierror])
    /\ result = NoResult
    /\ past = {}
    /\ NoCall

(* Bootstrap(node_ip, interface) *)
BootstrapInit ==
    /\ pc = "new"
    /\ \E node_ip \in NodeAddresses, interface \in Interfaces, net \in Networks :
        LET new == BootstrapNew(node_ip, interface, net)
        IN  /\ resolution' = Resolution(node_ip, interface, net)
            /\ self' = new.self
            /\ result' = new.exc
            /\ pc' = IF new.exc = NoResult THEN "idle" ELSE "failed"
    /\ UNCHANGED <<args, version, bootstrap_config, number_of_attempts,
                   request_id, gets, posts, backoffs, polls, pollDelays,
                   refused, inProgress, lastPost, lastStatus, op, status_call,
                   received, sent, fellBack, past>>

\* the state after Bootstrap(node_ip) for a node that resolves over IPv4
Init ==
    /\ pc = "idle"
    /\ resolution = Ipv4Resolution
    /\ self = BootstrapNew(Ipv4Resolution.node_ip, Ipv4Resolution.interface,
                           Ipv4Resolution.net).self
    /\ result = NoResult
    /\ past = {}
    /\ NoCall

-----------------------------------------------------------------------------
(* setup_cluster, from the call to the cluster-version GET *)

SetupClusterWith(arguments) ==
    /\ pc = "idle"
    /\ \E a \in arguments :
        /\ self' = [self EXCEPT !.function_name = "setup_cluster"]
        /\ op' = "setup_cluster"
        /\ IF TypeError(a) # NoError
           THEN /\ pc' = "done"
                /\ result' = Raised("InvalidParameterException", TypeError(a))
                /\ args' = LiveArgs(a)
                /\ gets' = gets
                /\ sent' = sent
           ELSE /\ pc' = "version"
                /\ result' = result
                /\ args' = a
                /\ gets' = gets + 1
                /\ sent' = Sent("version", a.timeout, "self", PyNone, "")
    /\ UNCHANGED <<version, bootstrap_config, number_of_attempts, request_id,
                   posts, backoffs, polls, pollDelays, refused, inProgress,
                   lastPost, lastStatus, resolution, status_call, received,
                   fellBack, past>>

SetupClusterCall == SetupClusterWith(SetupClusterArgs)

\* line 533 assigns the connection address too
RememberFirstNode_Rebinds(client, addr) ==
    [client EXCEPT !.ipv4_addr = addr, !.ipv6_addr = <<>>]

\* self.ipv4_addr = list(node_config.values())[0]
RememberFirstNode(client, addr) == [client EXCEPT !.ipv4_addr = addr]

\* self.post('internal', '/cluster/me/bootstrap', bootstrap_config, timeout,
\* authentication=False)
BootstrapPost(timeout) == Sent("post", timeout, "self", PyNone, "")

(* setup_cluster, from the answer to the version GET to the first POST *)

VersionResponse ==
    /\ pc = "version"
    /\ \E out \in VersionOutcomes :
        LET v == out.body.version
            error ==
                IF ~out.ok THEN Raised("APICallException", out.text)
                ELSE IF PyFloat(Prefix3(v)) = ValueError
                THEN Raised("ValueError", <<"could not convert string to float">>)
                ELSE IF NodeNameError(args) # NoError
                THEN Raised("InvalidParameterException", NodeNameError(args))
                ELSE IF NoFirstNode(args)
                THEN Raised("IndexError", <<"list index out of range">>)
                ELSE NoResult
        IN  /\ version' = IF out.ok THEN v ELSE version
            /\ args' = LiveArgs(args)
            /\ IF error # NoResult
               THEN /\ pc' = "done"
                    /\ result' = error
                    /\ UNCHANGED <<self, bootstrap_config, number_of_attempts,
                                   posts, sent>>
               ELSE /\ bootstrap_config' = BootstrapConfig(args, v)
                    /\ number_of_attempts' = 1
                    /\ self' = RememberFirstNode(self, DictValues(args.node_config)[1])
                    /\ posts' = posts + 1
                    /\ sent' = BootstrapPost(args.timeout)
                    /\ pc' = "post"
                    /\ result' = result
    /\ UNCHANGED <<request_id, gets, backoffs, polls, pollDelays, refused,
                   inProgress, lastPost, lastStatus, resolution, op,
                   status_call, received, fellBack, past>>

-----------------------------------------------------------------------------
(* setup_cluster: the submission loop *)

NoChangeText == "No change required. The Rubrik cluster is already bootstrapped."
UnableToConnectText == <<"Unable to establish a connection to the Rubrik cluster.">>

\* an unclassified failure is retried like a refused connection
OnBootstrapError_RetryOther(text) ==
    IF InText(AlreadyBootstrappedText, text) THEN "no_change" ELSE "retry"

\* every failure is retried
OnBootstrapError_RetryAll(text) ==
    IF InText(AlreadyBootstrappedText, text) THEN "no_change" ELSE "retry"

\* the "already bootstrapped" branch is missing
OnBootstrapError_NoShortCircuit(text) ==
    IF InText(ConnectionRefusedText, text) THEN "retry" ELSE "raise"

\* the branch of the except clause taken for an APICallException of this text
OnBootstrapError(text) ==
    IF InText(ConnectionRefusedText, text) THEN "retry"
    ELSE IF InText(AlreadyBootstrappedText, text) THEN "no_change"
    ELSE "raise"

\* the cap compared against a later attempt
AttemptsExhausted_Late(n) == n = 14

\* number_of_attempts == 12
AttemptsExhausted(n) == n = 12

\* status(request_id, timeout=15, ipv4_addr=None)
DefaultStatusTimeout == 15

\* a client that fell back once goes to the IPv4 address first
FirstTarget_Sticky(fell_back) == IF fell_back THEN "ipv4_conn" ELSE "self"

\* the client of the first GET of a status call: self.get(...)
FirstTarget(fell_back) == "self"

\* status, from the call to its GET at the resolved address
StatusEntry(rid, timeout, ipv4_addr, fell_back) ==
    /\ self' = [self EXCEPT !.function_name = "status"]
    /\ status_call' = [ request_id |-> rid, timeout |-> timeout,
                        ipv4_addr |-> ipv4_addr, tried |-> <<FirstTarget(fell_back)>>,
                        failed |-> 0 ]
    /\ sent' = Sent("status", timeout, FirstTarget(fell_back),
                    IF FirstTarget(fell_back) = "self" THEN PyNone ELSE ipv4_addr,
                    rid)
    /\ gets' = gets + 1
    /\ pc' = "status"

\* self.status(request_id, ipv4_addr=self.ipv4_addr) in the polling loop
StartPolling(rid, fell_back) ==
    /\ polls' = polls + 1
    /\ StatusEntry(rid, DefaultStatusTimeout, self.ipv4_addr, fell_back)

\* the polling loop is entered whatever the caller asked for
WaitsForCompletion_Always(a) == TRUE

\* if wait_for_completion:
WaitsForCompletion(a) == a.wait_for_completion

(* from the answer to a bootstrap POST to the next network call *)
BootstrapPostResponse ==
    /\ pc = "post"
    /\ \E out \in PostOutcomes :
        /\ lastPost' = IF out.ok THEN "ok" ELSE out.kind
        /\ refused' = IF ~out.ok /\ out.kind = "refused" THEN refused + 1 ELSE refused
        /\ IF out.ok
           THEN /\ request_id' = out.body.id
                /\ IF WaitsForCompletion(args)
                   THEN StartPolling(out.body.id, fellBack) /\ result' = result
                   ELSE /\ pc' = "done"
                        /\ result' = Returned("api_request", out.body)
                        /\ UNCHANGED <<self, polls, gets, status_call, sent>>
                /\ UNCHANGED <<number_of_attempts, posts, backoffs>>
           ELSE /\ UNCHANGED <<request_id, self, polls, gets, status_call>>
                /\ IF OnBootstrapError(out.text) = "retry"
                   THEN /\ number_of_attempts' = number_of_attempts + 1
                        /\ backoffs' = backoffs + 1
                        /\ IF AttemptsExhausted(number_of_attempts + 1)
                           THEN /\ pc' = "done"
                                /\ result' = Raised("APICallException", UnableToConnectText)
                                /\ posts' = posts
                                /\ sent' = sent
                           ELSE /\ pc' = "post"
                                /\ result' = result
                                /\ posts' = posts + 1
                                /\ sent' = BootstrapPost(args.timeout)
                   ELSE /\ pc' = "done"
                        /\ result' = IF OnBootstrapError(out.text) = "no_change"
                                     THEN Returned("text", NoChangeText)
                                     ELSE Raised("RubrikException", out.text)
                        /\ UNCHANGED <<number_of_attempts, posts, backoffs, sent>>
    /\ UNCHANGED <<args, version, bootstrap_config, pollDelays, inProgress,
                   lastStatus, resolution, op, received, fellBack, past>>

-----------------------------------------------------------------------------
(* setup_cluster: the polling loop, and status *)

\* the loop returns only on a failure and keeps waiting otherwise
OnStatus_KeepsWaiting(doc) ==
    IF doc.status = "FAILURE" \/ doc.status = "FAILED" THEN "fail" ELSE "wait"

\* FAILED is not recognised as a failure
OnStatus_FailureOnly(doc) ==
    IF doc.status = "IN_PROGRESS" THEN "wait"
    ELSE IF doc.status = "FAILURE" THEN "fail"
    ELSE "return"

\* an IN_PROGRESS document ends the loop like a final one
OnStatus_ReturnsEarly(doc) ==
    IF doc.status = "FAILURE" \/ doc.status = "FAILED" THEN "fail" ELSE "return"

\* the branch of the polling loop taken for a status document
OnStatus(doc) ==
    IF doc.status = "IN_PROGRESS" THEN "wait"
    ELSE IF doc.status = "FAILURE" \/ doc.status = "FAILED" THEN "fail"
    ELSE "return"

\* RubrikException("{}".format(status['message']))
JobFailure(doc) ==
    IF "message" \in DOMAIN doc
    THEN Raised("RubrikException", PyFormat(doc.message))
    ELSE Raised("KeyError", <<"message">>)

\* the polling loop, from the document a self.status call returned
Polled(doc, fell_back) ==
    /\ lastStatus' = doc
    /\ inProgress' = IF doc.status = "IN_PROGRESS" THEN inProgress + 1 ELSE inProgress
    /\ IF OnStatus(doc) = "wait"
       THEN /\ pollDelays' = pollDelays + 1
            /\ StartPolling(request_id, fell_back)
            /\ result' = result
       ELSE /\ pc' = "done"
            /\ result' = IF OnStatus(doc) = "fail" THEN JobFailure(doc)
                         ELSE Returned("status", doc)
            /\ UNCHANGED <<self, polls, gets, pollDelays, status_call, sent>>

\* the fallback addresses a caller passes to status
StatusAddresses == { PyNone, PyStr("10.0.0.1") }

(* status(request_id, ipv4_addr=...) called on its own *)
StatusCall ==
    /\ pc = "idle"
    /\ op' = "status"
    /\ \E rid \in RequestIds, ipv4_addr \in StatusAddresses :
        StatusEntry(rid, DefaultStatusTimeout, ipv4_addr, fellBack)
    /\ UNCHANGED <<args, version, bootstrap_config, number_of_attempts,
                   request_id, result, posts, backoffs, polls, pollDelays,
                   refused, inProgress, lastPost, lastStatus, resolution,
                   received, fellBack, past>>

\* status raises on a failure document instead of returning it
StatusResult_Interpreting(doc) ==
    IF doc.status = "FAILURE" THEN Raised("RubrikException", <<"failed">>)
    ELSE Returned("status", doc)

\* return api_request
StatusResult(doc) == Returned("status", doc)

\* what the caller of status does with the document: the polling loop goes
\* on, a direct caller has the document
StatusReturns(doc, via) ==
    /\ received' = doc
    /\ fellBack' = (fellBack \/ via = "ipv4_conn")
    /\ IF op = "setup_cluster"
       THEN Polled(doc, fellBack \/ via = "ipv4_conn")
       ELSE /\ pc' = "done"
            /\ result' = StatusResult(doc)
            /\ UNCHANGED <<self, polls, gets, pollDelays, inProgress,
                           lastStatus, status_call, sent>>

(* status, from the answer to its GET at the resolved address *)
StatusResponse ==
    /\ pc = "status"
    /\ \E out \in StatusOutcomes(polls) :
        IF out.ok
        THEN StatusReturns(out.body, "self")
        ELSE \E env \in Environments :
                LET error == ConnectError(status_call.ipv4_addr, PyNone, PyNone,
                                          PyStr("abcd"), "debug", env)
                IN  /\ IF error # NoError
                       THEN /\ pc' = "done"
                            /\ result' = Raised("InvalidParameterException", error)
                            /\ gets' = gets
                            /\ sent' = sent
                            /\ status_call' = [status_call EXCEPT !.failed = 1]
                       ELSE /\ pc' = "status_fallback"
                            /\ result' = result
                            /\ gets' = gets + 1
                            /\ sent' = Sent("status", status_call.timeout,
                                            "ipv4_conn", status_call.ipv4_addr,
                                            status_call.request_id)
                            /\ status_call' =
                                [status_call EXCEPT
                                    !.failed = 1,
                                    !.tried = Append(@, "ipv4_conn")]
                    /\ UNCHANGED <<self, polls, pollDelays, inProgress,
                                   lastStatus, received, fellBack>>
    /\ UNCHANGED <<args, version, bootstrap_config, number_of_attempts,
                   request_id, posts, backoffs, refused, lastPost, resolution,
                   op, past>>

(* status, from the answer to its GET through the IPv4 client *)
StatusFallbackResponse ==
    /\ pc = "status_fallback"
    /\ \E out \in StatusOutcomes(polls) :
        IF out.ok
        THEN StatusReturns(out.body, "ipv4_conn")
        ELSE /\ pc' = "done"
             /\ result' = Raised("APICallException", out.text)
             /\ status_call' = [status_call EXCEPT !.failed = 2]
             /\ UNCHANGED <<self, gets, polls, pollDelays, inProgress,
                            lastStatus, received, sent, fellBack>>
    /\ UNCHANGED <<args, version, bootstrap_config, number_of_attempts,
                   request_id, posts, backoffs, refused, lastPost, resolution,
                   op, past>>

-----------------------------------------------------------------------------

Next ==
    \/ SetupClusterCall
    \/ VersionResponse
    \/ BootstrapPostResponse
    \/ StatusCall
    \/ StatusResponse
    \/ StatusFallbackResponse

Spec == Init /\ [][Next]_vars

-----------------------------------------------------------------------------
(* Connect.__init__ as an operation *)

\* the arguments of Connect(...)
ConnectArgs ==
    [ node_ip : {PyNone, PyStr("10.0.0.1")},
      username : {PyNone, PyStr(""), PyStr("admin")},
      password : {PyNone, PyStr(""), PyStr("secret")},
      api_token : {PyNone, PyStr("abcd")},
      logging_level : {"debug", "verbose"},
      env : Environments ]

NoConnectClient ==
    [ node_ip |-> Unset, username |-> Unset, password |-> Unset,
      api_token |-> Unset ]

\* the fields Connect.__init__ assigns when it raises nothing
ConnectClient(a) ==
    LET username == IF Truthy(a.username) THEN a.username
                    ELSE a.env.rubrik_cdm_username
        password == IF Truthy(a.password) THEN a.password
                    ELSE a.env.rubrik_cdm_password
        api_token == IF Truthy(a.api_token) THEN a.api_token
                     ELSE a.env.rubrik_cdm_token
        by_password == Truthy(a.username) /\ Truthy(a.password)
        by_token == Truthy(a.api_token)
        env_password == ~by_password /\ ~by_token
                        /\ ~IsNone(username) /\ ~IsNone(password)
    IN  [ node_ip |-> IF IsNone(a.node_ip) THEN a.env.rubrik_cdm_node_ip
                      ELSE a.node_ip,
          username |-> IF by_password \/ env_password THEN username ELSE Unset,
          password |-> IF by_password \/ env_password THEN password ELSE Unset,
          api_token |-> IF by_token THEN api_token
                        ELSE IF by_password \/ env_password THEN PyNone
                        ELSE api_token ]

\* the Authorization entry built by _authorization_header; the base64
\* encoding of the credentials is kept as a tagged value
AuthorizationHeader(client) ==
    IF IsNone(client.api_token)
    THEN [ scheme |-> "Basic",
           b64 |-> <<client.username, ":", client.password>> ]
    ELSE [ scheme |-> "Bearer", token |-> client.api_token ]

\* before Connect(...) is called
InitConnect ==
    /\ pc = "new"
    /\ self = NoConnectClient
    /\ resolution = Resolution(<<>>, PyNone,
                               [interfaces |-> <<>>, inet6 |-> gaierror, inet |-> gaierror])
    /\ result = NoResult
    /\ past = {}
    /\ NoCall

(* Connect(node_ip, username, password, api_token, logging_level=...) *)
ConnectInit ==
    /\ pc = "new"
    /\ \E a \in ConnectArgs :
        LET error == ConnectError(a.node_ip, a.username, a.password,
                                  a.api_token, a.logging_level, a.env)
        IN  /\ args' = a
            /\ IF error # NoError
               THEN /\ pc' = "failed"
                    /\ result' = Raised("InvalidParameterException", error)
                    /\ self' = self
               ELSE /\ pc' = "idle"
                    /\ result' = result
                    /\ self' = ConnectClient(a)
    /\ UNCHANGED <<version, bootstrap_config, number_of_attempts, request_id,
                   gets, posts, backoffs, polls, pollDelays, refused,
                   inProgress, lastPost, lastStatus, resolution, op,
                   status_call, received, sent, fellBack, past>>

ConnectConstruction == InitConnect /\ [][ConnectInit]_vars

-----------------------------------------------------------------------------
(* A sequence of calls on one client *)

\* a node that resolves to a link-local IPv6 address, reached through eth0
Ipv6Resolution ==
    Resolution(<<"r", "v", "k", "1">>, PyStr(Eth0),
               [ interfaces |-> << <<1, Lo>>, <<2, Eth0>> >>,
                 inet6 |-> [ok |-> TRUE, addr |-> LinkLocalAddress, scope |-> 0],
                 inet |-> gaierror ])

SessionResolutions == {Ipv4Resolution, Ipv6Resolution}

\* setup_cluster calls with the optional arguments left at their defaults
SessionArgs ==
    [ cluster_name : {PyStr("cluster")},
      admin_email : {PyStr("admin@example.com")},
      admin_password : {PyStr("secret")},
      management_gateway : {PyStr("10.0.0.254")},
      management_subnet_mask : {PyStr("255.255.255.0")},
      node_config : { PyNone,
                      PyDict(<< <<"node1", PyStr("10.0.0.1")>> >>),
                      PyDict(<< <<"node2", PyStr("10.0.0.2")>>,
                                <<"node1", PyStr("10.0.0.1")>> >>) },
      enable_encryption : {TRUE},
      dns_search_domains : {PyNone},
      dns_nameservers : {PyNone},
      ntp_servers : {PyNone},
      wait_for_completion : BOOLEAN,
      management_vlan : {PyNone},
      ipmi_gateway : {PyNone},
      ipmi_subnet_mask : {PyNone},
      ipmi_vlan : {PyNone},
      node_ipmi_ips : {PyNone},
      data_gateway : {PyNone},
      data_subnet_mask : {PyNone},
      data_vlan : {PyNone},
      node_data_ips : {PyNone},
      timeout : {30} ]

\* a constructed client on which no call has been made
InitSession ==
    /\ pc = "idle"
    /\ resolution \in SessionResolutions
    /\ self = BootstrapNew(resolution.node_ip, resolution.interface,
                           resolution.net).self
    /\ result = NoResult
    /\ past = {}
    /\ NoCall

SessionSetupCluster == SetupClusterWith(SessionArgs)

\* how a call ended, for the record of the client's past
Outcome == {result.kind} \cup {o \in {"fell_back"} : fellBack}

(* the call is over: the caller has its value or exception, the locals of
   the call are gone, the client stays as the call left it *)
CallReturns ==
    /\ pc = "done"
    /\ pc' = "idle"
    /\ past' = past \cup Outcome
    /\ result' = NoResult
    /\ args' = NoArgs
    /\ version' = <<>>
    /\ bootstrap_config' = NoKeys
    /\ number_of_attempts' = 0
    /\ request_id' = ""
    /\ gets' = 0
    /\ posts' = 0
    /\ backoffs' = 0
    /\ polls' = 0
    /\ pollDelays' = 0
    /\ refused' = 0
    /\ inProgress' = 0
    /\ lastPost' = "none"
    /\ lastStatus' = NoDocument
    /\ op' = "none"
    /\ status_call' = NoStatusCall
    /\ received' = NoDocument
    /\ sent' = NoSent
    /\ fellBack' = FALSE
    /\ UNCHANGED <<self, resolution>>

NextSession ==
    \/ SessionSetupCluster
    \/ VersionResponse
    \/ BootstrapPostResponse
    \/ StatusCall
    \/ StatusResponse
    \/ StatusFallbackResponse
    \/ CallReturns

Sessions == InitSession /\ [][NextSession]_vars

-----------------------------------------------------------------------------

\* a transport call that was issued is answered
LiveSpec ==
    /\ Spec
    /\ WF_vars(StatusResponse)
    /\ WF_vars(StatusFallbackResponse)

\* the construction of one client
Construction == InitNew /\ [][BootstrapInit]_vars

-----------------------------------------------------------------------------
(* Properties of setup_cluster *)

IsParameterError(r) == r.kind = "raised" /\ r.exc = "InvalidParameterException"

\* node_config is None, not a mapping, or a mapping with no entries
BadNodeConfig(nc) == IsNone(nc) \/ ~IsDict(nc) \/ Len(nc.items) = 0

\* C1: a call with a node_config that is empty, None or not a mapping fails
\* with InvalidParameterException and issues no network call at all.
C1_BadNodeConfigNoNetwork ==
    (op = "setup_cluster" /\ BadNodeConfig(args.node_config))
        => /\ pc = "done"
           /\ IsParameterError(result)
           /\ gets = 0 /\ posts = 0 /\ polls = 0

\* C2: when the first 11 POSTs are refused the call goes on to a 12th POST,
\* with 11 backoff delays behind it, and has not failed.
C2_TwelfthAttemptAfterElevenRefusals ==
    refused = 11 => (posts = 12 /\ backoffs = 11 /\ result.kind # "raised")

\* C3: the bootstrap POST is issued at most 12 times, and a call all of whose
\* POSTs were refused ends with "Unable to establish a connection to the
\* Rubrik cluster".
C3_AtMostTwelvePosts ==
    /\ posts <= 12
    /\ (pc = "done" /\ posts > 0 /\ refused = posts)
            => result = Raised("APICallException", UnableToConnectText)

C3_Witness ==
    /\ pc = "done" /\ posts > 0 /\ refused = posts
    /\ result = Raised("APICallException", UnableToConnectText)

\* C4: a POST that fails with a transport failure other than connection
\* refused or already bootstrapped ends the call with a fatal error at once:
\* no backoff for it, no further POST, no status poll.
C4_OtherFailureAborts ==
    lastPost = "other"
        => /\ pc = "done"
           /\ result = Raised("RubrikException", OtherFailure.text)
           /\ backoffs = refused
           /\ posts = refused + 1
           /\ polls = 0 /\ gets = 1

C4_Witness == lastPost = "other" /\ pc = "done" /\ refused >= 1

\* C5: a POST answered with "already bootstrapped", the first or a retried
\* one, makes the call return the "No change required" text, and no status
\* GET is issued, whatever wait_for_completion is.
C5_AlreadyBootstrappedIsBenign ==
    lastPost = "already"
        => /\ pc = "done"
           /\ result = Returned("text", NoChangeText)
           /\ polls = 0 /\ gets = 1

C5_Witness ==
    /\ lastPost = "already" /\ pc = "done"
    /\ refused >= 1 /\ args.wait_for_completion

\* the IPMI or the data address map names a node that node_config does not have
StrayNodeName(a) ==
    \/ IsDict(a.node_ipmi_ips)
        /\ \E name \in DictKeys(a.node_ipmi_ips) : name \notin DictKeys(a.node_config)
    \/ IsDict(a.node_data_ips)
        /\ \E name \in DictKeys(a.node_data_ips) : name \notin DictKeys(a.node_config)

\* C6: a call whose IPMI or data address map names a node that is not in
\* node_config is rejected before submission: the bootstrap POST is never
\* issued, whatever the gateway, subnet mask and vlan arguments are.
C6_StrayNodeNameRejected ==
    [][ (pc = "version" /\ StrayNodeName(args)) => posts' = 0 ]_vars

\* C7: every parameter error of setup_cluster is raised before the call has
\* issued any network request.
C7_ParameterErrorBeforeNetwork ==
    (op = "setup_cluster" /\ IsParameterError(result)) => (gets = 0 /\ posts = 0)

\* the major number of a version string: its digits before the first dot
ReportedMajor(v) ==
    LET dot == CHOOSE i \in 1..Len(v) :
                  v[i] = "." /\ \A j \in 1..(i - 1) : v[j] # "."
    IN  DigitsToNat(SubSeq(v, 1, dot - 1))

\* the NTP servers of a call: the ntp_servers argument, or its default
SuppliedNtpServers(a) ==
    IF IsNone(a.ntp_servers) THEN <<PyStr("pool.ntp.org")>> ELSE a.ntp_servers.items

NtpKeys == {"ntpServers", "ntpServerConfigs"}

\* C8: the document submitted has exactly one NTP key, chosen by the reported
\* version: below 5.0 "ntpServers" with the supplied list of server strings,
\* from 5.0 on (5.0 included) "ntpServerConfigs" with one {server: name}
\* record per supplied server, in the same order.
C8_NtpSchemaByVersion ==
    [][ (pc = "version" /\ pc' = "post")
          => LET doc == bootstrap_config'
                 servers == SuppliedNtpServers(args)
             IN  IF ReportedMajor(version') < 5
                 THEN /\ DOMAIN doc \cap NtpKeys = {"ntpServers"}
                      /\ doc.ntpServers = PyList(servers)
                 ELSE /\ DOMAIN doc \cap NtpKeys = {"ntpServerConfigs"}
                      /\ doc.ntpServerConfigs.t = "list"
                      /\ Len(doc.ntpServerConfigs.items) = Len(servers)
                      /\ \A i \in 1..Len(servers) :
                            doc.ntpServerConfigs.items[i] = [server |-> servers[i]]
      ]_vars

C8_Witness ==
    /\ pc = "post"
    /\ version = <<"5", ".", "0", ".", "0">>
    /\ "ntpServerConfigs" \in DOMAIN bootstrap_config
    /\ Len(bootstrap_config.ntpServerConfigs.items) = 2

\* C9: with wait_for_completion, when a status poll returns a state that is
\* none of IN_PROGRESS, FAILURE, FAILED after n polls that returned
\* IN_PROGRESS, the call returns that document unchanged, after exactly n+1
\* polls and n polling delays.
C9_ReturnsFinalStatus ==
    lastStatus.status \notin {"none", "IN_PROGRESS", "FAILURE", "FAILED"}
        => /\ args.wait_for_completion
           /\ pc = "done"
           /\ result = Returned("status", lastStatus)
           /\ polls = inProgress + 1
           /\ pollDelays = inProgress

C9_Witness ==
    /\ pc = "done"
    /\ lastStatus.status = "SUCCESS"
    /\ inProgress = 2
    /\ result = Returned("status", lastStatus)

\* C10: with wait_for_completion, when a status poll returns FAILURE or
\* FAILED the call fails with an error whose message is the message of that
\* document, and no further poll or delay follows.
C10_JobFailureMessage ==
    lastStatus.status \in {"FAILURE", "FAILED"}
        => /\ args.wait_for_completion
           /\ pc = "done"
           /\ result.kind = "raised"
           /\ "message" \in DOMAIN lastStatus
                => (result.exc = "RubrikException"
                    /\ result.text = <<lastStatus.message>>)
           /\ polls = inProgress + 1
           /\ pollDelays = inProgress

C10_Witness ==
    /\ pc = "done"
    /\ lastStatus = [status |-> "FAILED", message |-> "node unreachable"]
    /\ inProgress >= 1
    /\ result.kind = "raised"

-----------------------------------------------------------------------------
(* Properties of status and of the calls around the submission *)

\* C11: with wait_for_completion false a successful POST ends the call with
\* the response of that POST as its value; no status GET has been issued and
\* no polling delay has occurred.
C11_NoWaitReturnsSubmission ==
    (op = "setup_cluster" /\ lastPost = "ok" /\ ~args.wait_for_completion)
        => /\ pc = "done"
           /\ result = Returned("api_request", [id |-> request_id])
           /\ gets = 1
           /\ polls = 0
           /\ pollDelays = 0
           /\ status_call = NoStatusCall

C11_Witness ==
    /\ pc = "done"
    /\ lastPost = "ok"
    /\ ~args.wait_for_completion
    /\ refused >= 1
    /\ result = Returned("api_request", [id |-> "7"])

\* C12: a call of status issues at most two GETs; when the first fails, and
\* a fallback address was passed, exactly one more is issued through the
\* IPv4 client; when the first succeeds there is no second; when both fail
\* the call ends with the second failure.
C12_FallbackOnceAfterFailure ==
    /\ Len(status_call.tried) <= 2
    /\ status_call.failed = 0 => status_call.tried \in {<<>>, <<"self">>}
    /\ (status_call.failed >= 1 /\ ~IsNone(status_call.ipv4_addr))
            => status_call.tried = <<"self", "ipv4_conn">>
    /\ status_call.failed = 2
            => (pc = "done" /\ result.kind = "raised"
                /\ result.exc = "APICallException")

\* the client as Bootstrap.__init__ left it
Constructed ==
    BootstrapNew(resolution.node_ip, resolution.interface, resolution.net).self

\* C13 as stated: a call of status returns the document it received,
\* whatever its state, and leaves every field of the client unchanged.
C13_StatusIsPure ==
    op = "status"
        => /\ self = Constructed
           /\ received # NoDocument
                => (pc = "done" /\ result = Returned("status", received))

\* C13: a call of status returns the document it received, whatever its
\* state, and changes no field of the client but function_name, which it
\* sets to "status".
C13_StatusTagsAndReturns ==
    op = "status"
        => /\ self = [Constructed EXCEPT !.function_name = "status"]
           /\ received # NoDocument
                => (pc = "done" /\ result = Returned("status", received))

C13_Witness ==
    /\ op = "status"
    /\ pc = "done"
    /\ received = [status |-> "FAILURE", message |-> "disk error"]
    /\ result = Returned("status", received)
    /\ self.function_name = "status"

\* C14: a connection-refused error met before the job is submitted does not
\* end the call unless a backoff delay has been waited.
C14_RefusedIsTransientEverywhere ==
    (/\ op = "setup_cluster"
     /\ pc = "done"
     /\ polls = 0
     /\ result.kind = "raised"
     /\ result.exc = "APICallException"
     /\ InText(ConnectionRefusedText, result.text))
        => backoffs > 0

\* the polling of a setup_cluster call has ended
PollingEnded == op = "setup_cluster" /\ polls > 0 /\ pc = "done"

\* C15: a polling setup_cluster call does not end while the latest status
\* is IN_PROGRESS: it ends on a document of another state or after a status
\* GET failed; and once it polls it eventually ends.
C15_PollsUntilTerminal ==
    /\ [](PollingEnded
            => \/ status_call.failed > 0
               \/ /\ lastStatus = received
                  /\ lastStatus.status # "IN_PROGRESS")
    /\ [](PollingEnded /\ result.kind = "returned"
            => /\ result = Returned("status", lastStatus)
               /\ lastStatus.status \notin {"IN_PROGRESS", "FAILURE", "FAILED"})
    /\ (op = "setup_cluster" /\ pc \in {"status", "status_fallback"})
            ~> PollingEnded

C15_Witness ==
    /\ PollingEnded
    /\ inProgress >= 2
    /\ status_call.failed = 0
    /\ lastStatus.status = "SUCCESS"
    /\ result = Returned("status", lastStatus)

\* C24: every transport call of a setup_cluster call, the version GET,
\* each POST and each status GET, is issued with the caller's timeout.
C24_CallerTimeoutEverywhere ==
    (op = "setup_cluster" /\ sent.kind # "none")
        => sent.timeout = args.timeout

\* this step issues a transport call
Issues == gets' + posts' > gets + posts

\* C25: in one setup_cluster call the version GET is the first call and is
\* issued once; a POST is issued after it, and again only when the POST
\* before it was refused; after a POST succeeded no POST follows; a status
\* GET is issued only after a POST succeeded and carries the id of that
\* POST's response.
C25_CallOrdering ==
    [][ op' = "setup_cluster"
        => /\ (Issues /\ sent'.kind = "version")
                => (gets = 0 /\ posts = 0)
           /\ (Issues /\ sent'.kind = "post")
                => /\ gets = 1 /\ polls = 0
                   /\ lastPost' = IF posts = 0 THEN "none" ELSE "refused"
           /\ (Issues /\ sent'.kind = "status")
                => /\ lastPost' = "ok"
                   /\ sent'.request_id = request_id'
                   /\ status_call'.request_id = request_id'
           /\ lastPost = "ok"
                => (posts' = posts /\ lastPost' = "ok" /\ request_id' = request_id)
      ]_vars

C25_Witness ==
    /\ op = "setup_cluster"
    /\ pc = "done"
    /\ refused >= 1
    /\ lastPost = "ok"
    /\ polls >= 2
    /\ request_id = "7"
    /\ sent.request_id = "7"

\* C26: in a polling setup_cluster call every status call goes to the
\* resolved address first, also after an earlier poll was answered through
\* the IPv4 client, and every fallback GET goes to the management IP of the
\* first entry of the call's node_config.
C26_FallbackNotRemembered ==
    [][ (op' = "setup_cluster" /\ Issues /\ sent'.kind = "status")
        => IF Len(status_call'.tried) = 1
           THEN /\ status_call'.tried = <<"self">>
                /\ sent'.via = "self"
           ELSE /\ status_call'.tried = <<"self", "ipv4_conn">>
                /\ sent'.via = "ipv4_conn"
                /\ sent'.address = DictValues(args.node_config)[1]
      ]_vars

C26_Witness ==
    /\ op = "setup_cluster"
    /\ fellBack
    /\ polls >= 2
    /\ pc = "status_fallback"
    /\ status_call.tried = <<"self", "ipv4_conn">>
    /\ sent.address = PyStr("10.0.0.1")
    /\ Len(args.node_config.items) = 2

\* the connection target of a client
ConnectionTarget(client) ==
    [ node_ip |-> client.node_ip, ipv6_addr |-> client.ipv6_addr,
      ipv6_scope |-> client.ipv6_scope ]

\* C21: after any sequence of setup_cluster and status calls on one client,
\* and at every point inside them, the client's connection address, IPv6
\* address and scope are those construction left.
C21_TargetImmutable ==
    ConnectionTarget(self) = ConnectionTarget(Constructed)

C21_Witness ==
    /\ pc = "idle"
    /\ past = {"returned", "raised", "fell_back"}
    /\ self.ipv6_addr = LinkLocalAddress
    /\ self.ipv4_addr = PyStr("10.0.0.2")
    /\ self.function_name = "status"

-----------------------------------------------------------------------------
(* Properties of Bootstrap.__init__ *)

\* the Host entry of the header built by _header, <<>> when there is none
HostHeader(client) ==
    IF client.ipv6_addr # <<>> THEN <<"[">> \o client.ipv6_addr \o <<"]">>
    ELSE <<>>

HasPrefix(prefix, s) ==
    Len(s) >= Len(prefix) /\ SubSeq(s, 1, Len(prefix)) = prefix

\* an IPv4-mapped IPv6 address, ::ffff:a.b.c.d
HasMappedPrefix(addr) == HasPrefix(<<":", ":", "f", "f", "f", "f", ":">>, addr)

\* an address of fe80::/10, as getaddrinfo prints it
IsLinkLocal(addr) == HasPrefix(<<"f", "e", "8", "0", ":">>, addr)

\* the loopback interface
IsLoopback(name) == name = Lo

\* the interface argument was accepted, so that resolution was attempted
InterfaceAccepted ==
    /\ pc # "new"
    /\ \/ IsNone(resolution.interface)
       \/ HasInterface(resolution.interface.v, resolution.net.interfaces)

\* the IPv6 resolution of the input answered with an address
Resolved6 == InterfaceAccepted /\ resolution.net.inet6.ok

\* a link-local address was resolved with scope 0 and no interface was given
UnscopedLinkLocal ==
    /\ Resolved6
    /\ IsLinkLocal(resolution.net.inet6.addr)
    /\ IsNone(resolution.interface)
    /\ resolution.net.inet6.scope = 0

NonLoopback(interfaces) ==
    {i \in 1..Len(interfaces) : ~IsLoopback(interfaces[i][2])}

\* the index of the first interface, in enumeration order, that is not lo
FirstNonLoopback(interfaces) ==
    interfaces[CHOOSE i \in NonLoopback(interfaces) :
                    \A j \in NonLoopback(interfaces) : i <= j][1]

\* C16: when the IPv6 resolution of the input answers with an IPv4-mapped
\* address, construction succeeds, the connection address is the raw input,
\* no IPv6 address is retained and the header carries no Host entry.
C16_MappedIsPlainIpv4 ==
    (Resolved6 /\ HasMappedPrefix(resolution.net.inet6.addr))
        => /\ pc = "idle"
           /\ self.node_ip = resolution.node_ip
           /\ self.ipv6_addr = <<>>
           /\ self.ipv6_scope = Unset
           /\ HostHeader(self) = <<>>

C16_Witness ==
    /\ pc = "idle"
    /\ resolution.net.inet6.ok
    /\ resolution.net.inet6.addr = MappedAddress
    /\ resolution.node_ip = <<"1", "0", ".", "0", ".", "0", ".", "9">>
    /\ self.node_ip = resolution.node_ip

\* C17: for a link-local address resolved with scope 0 and no interface
\* argument, the scope adopted is the index of the first interface that is
\* not the loopback interface, and the connection address carries it.
C17_ScopeIsFirstNonLoopback ==
    (UnscopedLinkLocal /\ NonLoopback(resolution.net.interfaces) # {})
        => /\ pc = "idle"
           /\ self.ipv6_scope = PyInt(FirstNonLoopback(resolution.net.interfaces))
           /\ self.node_ip = FormatNodeIp(resolution.net.inet6.addr, self.ipv6_scope)

\* C18: for a link-local address resolved with scope 0 and no interface
\* argument, construction fails when no interface but the loopback exists,
\* and no client is constructed whose address carries scope 0.
C18_NoClientWithScopeZero ==
    /\ (UnscopedLinkLocal /\ NonLoopback(resolution.net.interfaces) = {})
            => (pc = "failed" /\ result.kind = "raised")
    /\ pc = "idle" => ~Contains(<<"%", "0", "]">>, self.node_ip)

\* C19: when the IPv6 resolution fails, IPv4 resolution is attempted: if it
\* succeeds the client is constructed with the input as its connection
\* address and no IPv6 address or scope; if it fails construction fails with
\* the "could not resolve address" error and there is no client.
C19_Ipv4AfterIpv6Failure ==
    (InterfaceAccepted /\ ~resolution.net.inet6.ok)
        => IF resolution.net.inet.ok
           THEN /\ pc = "idle"
                /\ self.node_ip = resolution.node_ip
                /\ self.ipv6_addr = <<>>
                /\ self.ipv6_scope = Unset
           ELSE /\ pc = "failed"
                /\ result = Raised("RubrikException", NoResolutionText)
                /\ self = NoClient

C19_Witness ==
    /\ pc = "idle"
    /\ ~resolution.net.inet6.ok
    /\ resolution.net.inet.ok
    /\ resolution.node_ip = <<"r", "v", "k", "1">>
    /\ self.node_ip = <<"r", "v", "k", "1">>

\* C20: a constructed client has a non-empty connection address, and it has
\* a scope, in the client and in the address, only when it retained an IPv6
\* address that is link-local.
C20_ScopeOnlyForLinkLocal ==
    pc = "idle"
        => /\ self.node_ip # <<>>
           /\ (self.ipv6_scope # Unset \/ Contains(<<"%">>, self.node_ip))
                => (self.ipv6_addr # <<>> /\ IsLinkLocal(self.ipv6_addr))

\* C23: a resolved IPv6 address is handled as IPv4-mapped exactly when it
\* has the prefix ::ffff: ; any other resolved address is kept as the
\* client's IPv6 address and the connection address is [address%scope].
C23_MappedIffPrefix ==
    (Resolved6 /\ pc = "idle")
        => IF HasMappedPrefix(resolution.net.inet6.addr)
           THEN /\ self.node_ip = resolution.node_ip
                /\ self.ipv6_addr = <<>>
           ELSE /\ self.ipv6_addr = resolution.net.inet6.addr
                /\ self.node_ip = FormatNodeIp(self.ipv6_addr, self.ipv6_scope)

-----------------------------------------------------------------------------
(* Properties of Connect.__init__ *)

\* C22: when an api_token is passed to Connect, with a node address and a
\* valid logging level, construction succeeds and the client authenticates
\* with the token, whatever username and password are passed or found in
\* the environment.
C22_TokenIgnoresPassword ==
    (/\ pc # "new"
     /\ Truthy(args.api_token)
     /\ ~IsNone(args.node_ip)
     /\ args.logging_level \in LoggingLevels)
        => /\ pc = "idle"
           /\ AuthorizationHeader(self)
                = [scheme |-> "Bearer", token |-> args.api_token]

=============================================================================
